---- MODULE Spec2Model ----
(***************************************************************************)
(* A model of the MyGpu device-vector library (src/gpu_src/my_gpu.h, the   *)
(* generic-template generation, and src/MyThrust/my_gpu.h, the             *)
(* type-specialised macro generation).                                     *)
(*                                                                         *)
(* Device arrays are sequences; element i of the C++ array is element i+1  *)
(* of the sequence.  Element values are exact rationals <<n, d>> in lowest *)
(* terms (d > 0), so that 1.0 / s and the rescale of softmax are computed  *)
(* and not assumed.  exp is the exponential to the base ExpBase on integer *)
(* arguments (positive, exp(0) = 1); log is kept symbolic: the value       *)
(* lin - log(arg) is the record [lin |-> lin, logarg |-> arg].             *)
(***************************************************************************)
EXTENDS Integers, Sequences, FiniteSets, TLC

\* ---------------------------------------------------------------- bounds
MaxLen == 3
MaxVal == 1
ExpBase == 2
MaxRow == 2
MaxCol == 1026
MaxTRow == 33
MaxTCol == 2
MaxThreads == 2049
MaxAllocSize == 8
MaxDotLen == 2
MaxInfLen == 2
MaxRandLen == 3
MaxKRow == 2
MaxKCol == 2
DevCapacity == 16

\* ------------------------------------------------------ program constants
\* a block cannot have more than 1024 threads
MaxBlockThreads == 1024
\* the warp size block dimensions are rounded to
WarpSize == 32
\* the tile edge of the transpose kernel
BLOCK_DIM == 16
\* the magnitude above which gpu_correct_inf replaces an element (1e5)
InfThreshold == 100000

\* ------------------------------------------------------ rational numbers
Abs(n) == IF n < 0 THEN -n ELSE n

RECURSIVE Gcd(_, _)
Gcd(x, y) == IF y = 0 THEN x ELSE Gcd(y, x % y)

RNorm(n, d) ==
    LET g == Gcd(Abs(n), Abs(d))
        s == IF d < 0 THEN -1 ELSE 1
    IN  <<(s * n) \div g, (s * d) \div g>>

RInt(n) == <<n, 1>>
RAdd(x, y) == RNorm(x[1] * y[2] + y[1] * x[2], x[2] * y[2])
RSub(x, y) == RNorm(x[1] * y[2] - y[1] * x[2], x[2] * y[2])
RMul(x, y) == RNorm(x[1] * y[1], x[2] * y[2])
RInv(x) == RNorm(x[2], x[1])
RLess(x, y) == x[1] * y[2] < y[1] * x[2]

RECURSIVE IPow(_, _)
IPow(base, k) == IF k = 0 THEN 1 ELSE base * IPow(base, k - 1)

\* --------------------------------------------------- elementary functions
\* exp of the math library, on integer arguments
exp(x) == IF x[1] >= 0 THEN RInt(IPow(ExpBase, x[1]))
          ELSE RNorm(1, IPow(ExpBase, -x[1]))

fabs(x) == IF x[1] < 0 THEN <<-x[1], x[2]>> ELSE x

sigmoid_deriv(x) == RMul(x, RSub(RInt(1), x))

square(x) == RMul(x, x)

cube(x) == RMul(RMul(x, x), x)

signum(val) ==
    RInt((IF RLess(RInt(0), val) THEN 1 ELSE 0) - (IF RLess(val, RInt(0)) THEN 1 ELSE 0))

rectified_linear(x) == IF RLess(RInt(0), x) THEN x ELSE RInt(0)

rectified_linear_deriv(x) == IF RLess(RInt(0), x) THEN RInt(1) ELSE RInt(0)

FuncNames == {"exp", "fabs", "sigmoid_deriv", "square", "cube", "signum",
              "rectified_linear", "rectified_linear_deriv"}

\* name(x) in the functor macros: the function the macro argument names
ApplyF(name, x) ==
    CASE name = "exp" -> exp(x)
      [] name = "fabs" -> fabs(x)
      [] name = "sigmoid_deriv" -> sigmoid_deriv(x)
      [] name = "square" -> square(x)
      [] name = "cube" -> cube(x)
      [] name = "signum" -> signum(x)
      [] name = "rectified_linear" -> rectified_linear(x)
      [] name = "rectified_linear_deriv" -> rectified_linear_deriv(x)

\* ------------------------------------------------------------- functors
\* variant: operator() without the post-scale m
functor_noscale(name, a, b, m, x) == ApplyF(name, RAdd(RMul(a, x), b))

\* generic generation: functor_<name><T>(a, b, m)(x)
functor(name, a, b, m, x) == RMul(m, ApplyF(name, RAdd(RMul(a, x), b)))

\* type-specialised generation: functor_<name>_<Ftype>, _1, _2, _3
functor_0(name, x) == ApplyF(name, x)

functor_1(name, b, x) == ApplyF(name, RAdd(x, b))

functor_2(name, a, x) == ApplyF(name, RMul(a, x))

functor_3(name, a, b, x) == ApplyF(name, RAdd(RMul(a, x), b))

\* functor_linear<T>(a, b)(x)
functor_linear(a, b, x) == RAdd(RMul(a, x), b)

\* ------------------------------------------- two-argument functions
\* n / d rounded towards zero
Trunc(x) == IF x[1] >= 0 THEN x[1] \div x[2] ELSE -((-x[1]) \div x[2])

RECURSIVE RPowN(_, _)
RPowN(x, k) == IF k = 0 THEN RInt(1) ELSE RMul(x, RPowN(x, k - 1))

\* pow of the math library, for an integer exponent p
pow(x, p) == IF p[1] >= 0 THEN RPowN(x, p[1]) ELSE RInv(RPowN(x, -p[1]))

\* fmod of the math library: x - trunc(x / p) * p, for p # 0
fmod(x, p) == RSub(x, RMul(RInt(Trunc(RMul(x, RInv(p)))), p))

Func2Names == {"pow", "fmod"}

\* name(x, p) in the binary functor macros
ApplyF2(name, x, p) ==
    CASE name = "pow" -> pow(x, p)
      [] name = "fmod" -> fmod(x, p)

\* generic generation: functor_<name><T>(p, a, b, m)(x) of GEN_linear_functor_2
functor2(name, p, a, b, m, x) == RMul(m, ApplyF2(name, RAdd(RMul(a, x), b), p))

\* the k-th optional argument of a call, or the default the declaration gives
ArgOr(given, k, default) == IF Len(given) >= k THEN given[k] ELSE default

\* functor_<name>(T _a = 1, T _b = 0, T _m = 1): the object constructed with
\* the optional arguments given
functor_ctor(name, given) ==
    [kind |-> "functor", name |-> name,
     a |-> ArgOr(given, 1, RInt(1)),
     b |-> ArgOr(given, 2, RInt(0)),
     m |-> ArgOr(given, 3, RInt(1))]

\* functor_<name>(T _p, T _a = 1, T _b = 0, T _m = 0) of GEN_linear_functor_2
functor2_ctor(name, p, given) ==
    [kind |-> "functor2", name |-> name, p |-> p,
     a |-> ArgOr(given, 1, RInt(1)),
     b |-> ArgOr(given, 2, RInt(0)),
     m |-> ArgOr(given, 3, RInt(0))]

\* ------------------------------------------------ infinity correction
\* the floating-point values that are not numbers of the real line, written
\* as quotients by zero: +infinity, -infinity and NaN
PosInf == <<1, 0>>
NegInf == <<-1, 0>>
NaN == <<0, 0>>
IsNaN(x) == x = NaN

\* x > y on floating-point values: false when either is NaN
fgreater(x, y) ==
    IF IsNaN(x) \/ IsNaN(y) THEN FALSE
    ELSE IF x = y THEN FALSE
    ELSE IF x = PosInf \/ y = NegInf THEN TRUE
    ELSE IF x = NegInf \/ y = PosInf THEN FALSE
    ELSE RLess(y, x)

\* variant: the comparison with the threshold is not strict
correct_inf_struct_ge(replaceVal, x) ==
    IF IsNaN(x) THEN x
    ELSE IF ~fgreater(RInt(InfThreshold), fabs(x)) THEN replaceVal ELSE x

\* correct_inf_struct<T>(replaceVal)(x) = fabs(x) > 1e5 ? replaceVal : x
correct_inf_struct(replaceVal, x) ==
    IF fgreater(fabs(x), RInt(InfThreshold)) THEN replaceVal ELSE x

\* a functor object: the struct it is an instance of and the scalars its
\* constructor captured (those the struct does not have are left at a, b, m
\* = 1, 0, 1 and never read)
FunctorObj(kind, name, a, b, m) ==
    [kind |-> kind, name |-> name, a |-> a, b |-> b, m |-> m]

\* op(x): operator() of the functor object op
call_op(op, x) ==
    CASE op.kind = "functor" -> functor(op.name, op.a, op.b, op.m, x)
      [] op.kind = "functor_0" -> functor_0(op.name, x)
      [] op.kind = "functor_1" -> functor_1(op.name, op.b, x)
      [] op.kind = "functor_2" -> functor_2(op.name, op.a, x)
      [] op.kind = "functor_3" -> functor_3(op.name, op.a, op.b, x)
      [] op.kind = "functor_linear" -> functor_linear(op.a, op.b, x)
      [] op.kind = "functor2" -> functor2(op.name, op.p, op.a, op.b, op.m, x)
      [] op.kind = "correct_inf_struct" -> correct_inf_struct(op.replaceVal, x)

\* --------------------------------------------------- thrust primitives
\* thrust::transform(first, first + size, result, op): result[i] = op(first[i])
\* for i < size; the elements of result from size on are not touched.
transform(first, size, result, op) ==
    [i \in 1..Len(result) |-> IF i <= size THEN call_op(op, first[i]) ELSE result[i]]

\* thrust::copy_n(first, size, result)
copy_n(first, size, result) ==
    [i \in 1..Len(result) |-> IF i <= size THEN first[i] ELSE result[i]]

\* element reads plus element writes of one full pass over size elements
PassCost(size) == 2 * size

\* ---------------------------------------------- elementwise dispatcher
\* gpu_<name><T>(begin, size, out, a, b, m); the in-place overload passes
\* out = begin
gpu_transf(name, first, size, result, a, b, m) ==
    transform(first, size, result, FunctorObj("functor", name, a, b, m))

\* gpu_<name>_<Ftype>(begin, size, out, a, b) and its in-place twin
gpu_transf_ftype(name, first, size, result, a, b) ==
    IF a = RInt(1) /\ b = RInt(0)
    THEN transform(first, size, result, FunctorObj("functor_0", name, RInt(1), RInt(0), RInt(1)))
    ELSE IF a = RInt(1)
    THEN transform(first, size, result, FunctorObj("functor_1", name, RInt(1), b, RInt(1)))
    ELSE IF b = RInt(0)
    THEN transform(first, size, result, FunctorObj("functor_2", name, a, RInt(0), RInt(1)))
    ELSE transform(first, size, result, FunctorObj("functor_3", name, a, b, RInt(1)))

\* gpu_<name><T>(begin, size, out, p, a = 1, b = 0, m = 1) of GEN_transf_2,
\* called with the optional arguments given; the in-place overload passes
\* out = begin
gpu_transf_2(name, first, size, result, p, given) ==
    transform(first, size, result,
              functor2_ctor(name, p, <<ArgOr(given, 1, RInt(1)),
                                       ArgOr(given, 2, RInt(0)),
                                       ArgOr(given, 3, RInt(1))>>))

\* which of the four branches gpu_<name>_<Ftype> takes
ftype_branch(a, b) ==
    IF a = RInt(1) /\ b = RInt(0) THEN 0
    ELSE IF a = RInt(1) THEN 1
    ELSE IF b = RInt(0) THEN 2
    ELSE 3

\* variant: no test for the trivial case, always a transform
gpu_linear_always(first, size, result, same, a, b) ==
    [arr |-> transform(first, size, result,
                       FunctorObj("functor_linear", "", a, b, RInt(1))),
     cost |-> PassCost(size)]

\* gpu_linear<T>(begin, size, out, a, b): the array written and the number
\* of element accesses made; same is TRUE when out is the array begin.
gpu_linear(first, size, result, same, a, b) ==
    IF a = RInt(1) /\ b = RInt(0)
    THEN IF ~same
         THEN [arr |-> copy_n(first, size, result), cost |-> PassCost(size)]
         ELSE [arr |-> result, cost |-> 0]
    ELSE [arr |-> transform(first, size, result,
                       FunctorObj("functor_linear", "", a, b, RInt(1))),
          cost |-> PassCost(size)]

\* ------------------------------------------------ reductions and sort
\* thrust::max_element(begin, begin + size), dereferenced: gpu_max<T>
RECURSIVE gpu_max_from(_, _, _)
gpu_max_from(arr, i, size) ==
    IF i = size THEN arr[i]
    ELSE LET rest == gpu_max_from(arr, i + 1, size)
         IN  IF RLess(arr[i], rest) THEN rest ELSE arr[i]

gpu_max(arr, size) == gpu_max_from(arr, 1, size)

\* thrust::reduce(begin, begin + size, 0.0, plus): gpu_sum<T>
RECURSIVE gpu_sum(_, _)
gpu_sum(arr, size) ==
    IF size = 0 THEN RInt(0) ELSE RAdd(gpu_sum(arr, size - 1), arr[size])

\* thrust::transform_reduce(begin, begin + size, functor_exp<T>(1, -mx), 0.0, plus)
RECURSIVE exp_reduce(_, _, _)
exp_reduce(arr, size, mx) ==
    IF size = 0 THEN RInt(0)
    ELSE RAdd(exp_reduce(arr, size - 1, mx),
              functor("exp", RInt(1), RSub(RInt(0), mx), RInt(1), arr[size]))

\* the order thrust::sort uses: operator< by default, greater<T> when given
Before(desc, x, y) == IF desc THEN RLess(y, x) ELSE RLess(x, y)

\* thrust::sort(begin, begin + size [, greater<T>()]) as an insertion sort
\* of the first size elements
RECURSIVE InsertInto(_, _, _)
InsertInto(sorted, x, desc) ==
    IF sorted = <<>> THEN <<x>>
    ELSE IF Before(desc, x, Head(sorted)) THEN <<x>> \o sorted
    ELSE <<Head(sorted)>> \o InsertInto(Tail(sorted), x, desc)

RECURSIVE SortPrefix(_, _, _)
SortPrefix(arr, size, desc) ==
    IF size = 0 THEN <<>>
    ELSE InsertInto(SortPrefix(arr, size - 1, desc), arr[size], desc)

thrust_sort(arr, size, desc) ==
    LET sorted == SortPrefix(arr, size, desc)
    IN  [i \in 1..Len(arr) |-> IF i <= size THEN sorted[i] ELSE arr[i]]

\* variant: ascending for dir >= 0
gpu_sort_nonneg(arr, size, dir) ==
    IF dir >= 0 THEN thrust_sort(arr, size, FALSE)
    ELSE thrust_sort(arr, size, TRUE)

\* variant: no descending branch
gpu_sort_noelse(arr, size, dir) ==
    IF dir > 0 THEN thrust_sort(arr, size, FALSE)
    ELSE arr

\* gpu_sort<T>(begin, size, dir) and gpu_sort_<Ftype>
gpu_sort(arr, size, dir) ==
    IF dir > 0 THEN thrust_sort(arr, size, FALSE)
    ELSE thrust_sort(arr, size, TRUE)

\* ------------------------------------------------ composite ML kernels
\* Device memory is the record mem of the two arrays; src and dst name the
\* arrays the pointers begin and out point to ("begin" or "out"), so that
\* out == begin is src = dst.

\* variant: rescale by s instead of 1.0 / s
gpu_softmax_noinv(mem, src, dst, size) ==
    LET mx == gpu_max(mem[src], size)
        m1 == [mem EXCEPT ![dst] =
                  gpu_transf("exp", mem[src], size, mem[dst], RInt(1),
                             RSub(RInt(0), mx), RInt(1))]
        s  == gpu_sum(m1[dst], size)
        r  == gpu_linear(m1[dst], size, m1[dst], TRUE, s, RInt(0))
    IN  [mem |-> [m1 EXCEPT ![dst] = r.arr], cost |-> r.cost]

\* gpu_softmax<T>(begin, size, out)
gpu_softmax(mem, src, dst, size) ==
    LET mx == gpu_max(mem[src], size)
        m1 == [mem EXCEPT ![dst] =
                  gpu_transf("exp", mem[src], size, mem[dst], RInt(1),
                             RSub(RInt(0), mx), RInt(1))]
        s  == gpu_sum(m1[dst], size)
        r  == gpu_linear(m1[dst], size, m1[dst], TRUE, RInv(s), RInt(0))
    IN  [mem |-> [m1 EXCEPT ![dst] = r.arr], cost |-> r.cost]

\* variant: the decrement lands one element after label
gpu_softmax_minus_id_next(mem, src, dst, size, label) ==
    LET r == gpu_softmax(mem, src, dst, size)
        at == IF label + 2 <= size THEN label + 2 ELSE 1
    IN  [mem |-> [r.mem EXCEPT ![dst][at] = RSub(@, RInt(1))],
         cost |-> r.cost]

\* gpu_softmax_minus_id<T>(begin, size, out, label)
gpu_softmax_minus_id(mem, src, dst, size, label) ==
    LET r == gpu_softmax(mem, src, dst, size)
    IN  [mem |-> [r.mem EXCEPT ![dst][label + 1] = RSub(@, RInt(1))],
         cost |-> r.cost]

\* the value lin - log(arg)
LogTerm(lin, arg) == [lin |-> lin, logarg |-> arg]

\* variant: the exponentials are stored into begin and then summed
gpu_softmax_at_label_inplace(mem, src, size, label) ==
    LET mx == gpu_max(mem[src], size)
        m1 == [mem EXCEPT ![src] =
                  gpu_transf("exp", mem[src], size, mem[src], RInt(1),
                             RSub(RInt(0), mx), RInt(1))]
        sumLogProb == LogTerm(RSub(mem[src][label + 1], mx), gpu_sum(m1[src], size))
    IN  [mem |-> m1, outLogProb |-> <<sumLogProb>>, ret |-> sumLogProb]

\* gpu_softmax_at_label<T>(begin, size, label, outLogProb): the memory after
\* the call, the one-element buffer outLogProb and the value returned
gpu_softmax_at_label(mem, src, size, label) ==
    LET mx == gpu_max(mem[src], size)
        expSum == exp_reduce(mem[src], size, mx)
        sumLogProb == LogTerm(RSub(mem[src][label + 1], mx), expSum)
    IN  [mem |-> mem, outLogProb |-> <<sumLogProb>>, ret |-> sumLogProb]

\* ---------------------------------------------- row/column utilities
\* Matrices are column-major device arrays of plain integers.
Max2(x, y) == IF x > y THEN x ELSE y

\* dim3 with its default constructor (1, 1, 1)
Dim3(x, y, z) == [x |-> x, y |-> y, z |-> z]
DefaultDim3 == Dim3(1, 1, 1)

\* variant: threads / 1024 blocks, without the + 1
setKernelDim1D_nospill(threads, gridDim, blockDim) ==
    IF threads > MaxBlockThreads
    THEN [gridDim |-> [gridDim EXCEPT !.x = threads \div MaxBlockThreads],
          blockDim |-> [blockDim EXCEPT !.x = MaxBlockThreads]]
    ELSE IF threads % WarpSize = 0
    THEN [gridDim |-> gridDim, blockDim |-> [blockDim EXCEPT !.x = threads]]
    ELSE [gridDim |-> gridDim,
          blockDim |-> [blockDim EXCEPT !.x = (threads \div WarpSize + 1) * WarpSize]]

\* variant: no test for threads being a multiple of 32 already
setKernelDim1D_noround(threads, gridDim, blockDim) ==
    IF threads > MaxBlockThreads
    THEN [gridDim |-> [gridDim EXCEPT !.x = threads \div MaxBlockThreads + 1],
          blockDim |-> [blockDim EXCEPT !.x = MaxBlockThreads]]
    ELSE [gridDim |-> gridDim,
          blockDim |-> [blockDim EXCEPT !.x = (threads \div WarpSize + 1) * WarpSize]]

\* setKernelDim1D(threads, gridDim, blockDim): the two dim3 after the call
setKernelDim1D(threads, gridDim, blockDim) ==
    IF threads > MaxBlockThreads
    THEN [gridDim |-> [gridDim EXCEPT !.x = threads \div MaxBlockThreads + 1],
          blockDim |-> [blockDim EXCEPT !.x = MaxBlockThreads]]
    ELSE IF threads % WarpSize = 0
    THEN [gridDim |-> gridDim, blockDim |-> [blockDim EXCEPT !.x = threads]]
    ELSE [gridDim |-> gridDim,
          blockDim |-> [blockDim EXCEPT !.x = (threads \div WarpSize + 1) * WarpSize]]

\* thrust::fill_n(first + offset, n, val)
fill_n(arr, offset, n, val) ==
    [k \in 1..Len(arr) |-> IF offset < k /\ k <= offset + n THEN val ELSE arr[k]]

\* gpu_fill_col_float(begin, row, col, colIdx, val)
gpu_fill_col_float(arr, row, col, colIdx, val) ==
    LET c == IF colIdx < 0 THEN colIdx + col ELSE colIdx
    IN  fill_n(arr, row * c, row, val)

\* ThreadIndex1D(idx, limit): the idx of the threads of the launch that pass
\* the bound check
ThreadIndex1D(gridDim, blockDim, limit) ==
    {idx \in 0..(gridDim.x * blockDim.x - 1) : ~(idx >= limit)}

\* gpu_fill_row_float_kernel<<<gridDim, blockDim>>>(begin, row, col, rowIdx, val):
\* every thread that passes the bound check writes begin[row * idx + rowIdx]
gpu_fill_row_float_kernel(gridDim, blockDim, arr, row, col, rowIdx, val) ==
    LET written == {row * idx + rowIdx : idx \in ThreadIndex1D(gridDim, blockDim, col)}
    IN  [k \in 1..Len(arr) |-> IF (k - 1) \in written THEN val ELSE arr[k]]

\* gpu_fill_row_float(begin, row, col, rowIdx, val)
gpu_fill_row_float(arr, row, col, rowIdx, val) ==
    LET dims == setKernelDim1D(col, DefaultDim3, DefaultDim3)
        r == IF rowIdx < 0 THEN rowIdx + row ELSE rowIdx
    IN  gpu_fill_row_float_kernel(dims.gridDim, dims.blockDim, arr, row, col, r, val)

\* ------------------------------------------------------ tiled transpose
\* the threads of a launch: block (bx, by), thread (tx, ty) of the block
KernelThreads(gridDim, blockDim) ==
    [bx : 0..(gridDim.x - 1), by : 0..(gridDim.y - 1),
     tx : 0..(blockDim.x - 1), ty : 0..(blockDim.y - 1)]

NoAccess == -1

\* index_in of thread t, or NoAccess when the read guard is false
index_in(t, width, height) ==
    LET xIndex == t.bx * BLOCK_DIM + t.tx
        yIndex == t.by * BLOCK_DIM + t.ty
    IN  IF xIndex < width /\ yIndex < height THEN yIndex * width + xIndex
        ELSE NoAccess

\* index_out of thread t, or NoAccess when the write guard is false
index_out(t, width, height) ==
    LET xIndex == t.by * BLOCK_DIM + t.tx
        yIndex == t.bx * BLOCK_DIM + t.ty
    IN  IF xIndex < height /\ yIndex < width THEN yIndex * height + xIndex
        ELSE NoAccess

\* a shared-memory cell no thread of the block stored into
Unloaded == -2

\* what a device array holds before its first write
Garbage == 0

\* block[y][x] of block (bx, by) at the barrier
tile_cell(in, width, height, bx, by, y, x) ==
    LET idx == index_in([bx |-> bx, by |-> by, tx |-> x, ty |-> y], width, height)
    IN  IF idx = NoAccess THEN Unloaded ELSE in[idx + 1]

\* gpu_transpose_float_kernel<<<gridDim, blockDim>>>(in, width, height, out):
\* the array out after every thread passed the barrier and wrote
gpu_transpose_float_kernel(gridDim, blockDim, in, width, height, outArr) ==
    LET writers == {t \in KernelThreads(gridDim, blockDim) :
                        index_out(t, width, height) # NoAccess}
    IN  [k \in 1..Len(outArr) |->
            IF \E t \in writers : index_out(t, width, height) = k - 1
            THEN LET t == CHOOSE u \in writers : index_out(u, width, height) = k - 1
                 IN  tile_cell(in, width, height, t.bx, t.by, t.tx, t.ty)
            ELSE outArr[k]]

\* gpu_transpose_float(in, row, col, out)
gpu_transpose_float(in, row, col, outArr) ==
    LET gridDim == Dim3(Max2(row \div BLOCK_DIM, 1), Max2(col \div BLOCK_DIM, 1), 1)
        blockDim == Dim3(BLOCK_DIM, BLOCK_DIM, 1)
    IN  gpu_transpose_float_kernel(gridDim, blockDim, in, row, col, outArr)

\* ------------------------------------------- tiled transpose, by thread
\* the launch gpu_transpose_float makes for a row x col matrix
LaunchGrid(row, col) ==
    Dim3(Max2(row \div BLOCK_DIM, 1), Max2(col \div BLOCK_DIM, 1), 1)
LaunchBlock == Dim3(BLOCK_DIM, BLOCK_DIM, 1)

\* the threads of a launch are numbered from 1, block after block and, in a
\* block, row after row of threadIdx.y: ThreadAt gives the block and thread
\* indices of thread number i
NumThreads(gridDim, blockDim) == gridDim.x * gridDim.y * blockDim.x * blockDim.y
ThreadAt(i, gridDim, blockDim) ==
    LET k == i - 1
        blk == k \div (blockDim.x * blockDim.y)
    IN  [bx |-> blk \div gridDim.y, by |-> blk % gridDim.y,
         tx |-> k % blockDim.x, ty |-> (k \div blockDim.x) % blockDim.y]

\* __shared__ float block[BLOCK_DIM][BLOCK_DIM + 1] of every block of a
\* launch, laid out one after the other: the place of block[y][x] of block
\* (bx, by)
NumTileCells(gridDim) == gridDim.x * gridDim.y * BLOCK_DIM * (BLOCK_DIM + 1)
TileIndex(gridDim, bx, by, y, x) ==
    ((bx * gridDim.y + by) * BLOCK_DIM + y) * (BLOCK_DIM + 1) + x + 1

\* the threads of the block of thread t
SameBlock(t, u) == t.bx = u.bx /\ t.by = u.by

\* what reading a shared-memory cell nobody stored into can give
UninitFloats == {Garbage, Unloaded}

\* variant: no __syncthreads(), a thread goes on to the write when it is there
syncthreads_absent(pc, arrived) == pc = "sync"

\* __syncthreads(): a thread that is at it is released when every thread of
\* its block has arrived
syncthreads(pc, arrived) == pc = "sync" /\ arrived

\* a thread that fails both guards: it touches neither global nor shared
\* memory and only passes the barrier
Bystander(t, width, height) ==
    index_in(t, width, height) = NoAccess /\ index_out(t, width, height) = NoAccess

\* gpu_correct_inf<T>(begin, size, replaceVal = 0): in place
gpu_correct_inf(first, size, given) ==
    transform(first, size, first,
              [kind |-> "correct_inf_struct", replaceVal |-> ArgOr(given, 1, RInt(0))])

\* ------------------------------------------------ random normal fill
\* thrust::minstd_rand rng, default-constructed: a fixed seed; its state is
\* the number of draws taken from the stream since then
minstd_rand == 0

\* rng.discard(z)
discard(rng, z) == rng + z

\* the sample the distribution makes of the draw at stream position pos
Sample(pos, mean, stddev) == [pos |-> pos, mean |-> mean, stddev |-> stddev]

\* dist(rng): one draw of the engine, turned into a normal sample
dist(rng, mean, stddev) ==
    [value |-> Sample(rng, mean, stddev), rng |-> rng + 1]

\* rand_normal_struct<T>::operator()(index) on a functor object whose engine
\* is in state rng: the returned sample and the state it leaves the engine in
rand_normal_struct(rng, mean, stddev, index) ==
    dist(discard(rng, index), mean, stddev)

\* the copies thrust::transform makes of the functor it is given: owner[i] is
\* the copy that serves index i, and a copy serves its indices in increasing
\* order. How many copies there are and which indices each serves is the
\* backend's choice (one per thread, a thread looping over several indices).
Owners(size) == [0..(size - 1) -> 0..(size - 1)]

\* the indices the copy serving index has served before it
ServedBefore(owner, index) == {j \in 0..(index - 1) : owner[j] = owner[index]}

\* the state of the engine of owner[index] when it is called on index
RECURSIVE RngBefore(_, _)
RngBefore(owner, index) ==
    IF ServedBefore(owner, index) = {} THEN minstd_rand
    ELSE LET j == CHOOSE k \in ServedBefore(owner, index) :
                      \A l \in ServedBefore(owner, index) : l <= k
         IN  rand_normal_struct(RngBefore(owner, j), 0, 0, j).rng

\* gpu_fill_rand_normal<T>(begin, size, mean, stddev): thrust::transform over
\* the counting iterator 0 .. size with one rand_normal_struct<T>(mean, stddev)
gpu_fill_rand_normal(first, size, mean, stddev, owner) ==
    [i \in 1..Len(first) |->
        IF i <= size
        THEN rand_normal_struct(RngBefore(owner, i - 1), mean, stddev, i - 1).value
        ELSE first[i]]

\* ------------------------------------------------ elementwise product
\* functor_scale_mult<T>(s)(x, y) = s * x * y
functor_scale_mult(s, x, y) == RMul(RMul(s, x), y)

\* thrust::multiplies<Ftype>()(x, y) = x * y
multiplies(x, y) == RMul(x, y)

\* op(x, y): operator() of a binary functor object
call_op2(op, x, y) ==
    CASE op.kind = "functor_scale_mult" -> functor_scale_mult(op.s, x, y)
      [] op.kind = "multiplies" -> multiplies(x, y)

\* thrust::transform(first1, first1 + size, first2, result, op):
\* result[i] = op(first1[i], first2[i]) for i < size
transform_2(first1, size, first2, result, op) ==
    [i \in 1..Len(result) |->
        IF i <= size THEN call_op2(op, first1[i], first2[i]) ELSE result[i]]

\* functor_scale_mult<T>(scalor): float scalor = 1 when the call gives none;
\* T is float or double, so T(scalor) is the same value
scale_mult_ctor(given) ==
    [kind |-> "functor_scale_mult", s |-> ArgOr(given, 1, RInt(1))]

\* variant: the functor is built without the scale
gpu_dot_mult_noscale(mem, size, dst, given) ==
    [mem EXCEPT ![dst] = transform_2(mem.begin1, size, mem.begin2, mem[dst],
                                     scale_mult_ctor(<<>>))]

\* gpu_dot_mult<T>(begin1, size, begin2, [out,] scalor) on the device memory
\* mem; dst names the array written: begin2 for the overload without out
gpu_dot_mult(mem, size, dst, given) ==
    [mem EXCEPT ![dst] = transform_2(mem.begin1, size, mem.begin2, mem[dst],
                                     scale_mult_ctor(given))]

\* gpu_dot_mult_<Ftype>(begin1, size, begin2 [, out])
gpu_dot_mult_ftype(mem, size, dst) ==
    [mem EXCEPT ![dst] = transform_2(mem.begin1, size, mem.begin2, mem[dst],
                                     [kind |-> "multiplies"])]

\* ------------------------------------------------ raw device pointers
Ftypes == {"int", "float", "double"}

\* sizeof(Ftype)
SizeOf(ftype) == IF ftype = "double" THEN 8 ELSE 4

\* what an uninitialised local pointer (Ftype *device;) may hold
UninitPtrs == {"null", "wild"}

\* cudaMalloc((void **)&device, bytes) of the CUDA runtime: on success *device
\* is the new allocation; on failure it returns cudaErrorMemoryAllocation and
\* leaves *device as it was
cudaMalloc(device, bytes) ==
    IF bytes <= DevCapacity
    THEN [err |-> "cudaSuccess", device |-> "allocated"]
    ELSE [err |-> "cudaErrorMemoryAllocation", device |-> device]

\* malloc_device_<Ftype>(size, memsetTo0), device being what the local
\* pointer holds before cudaMalloc: the value returned, the error given to
\* the caller (the function has no error channel and drops cudaMalloc's
\* result) and the runtime calls issued through the pointer
malloc_device(ftype, size, memsetTo0, device) ==
    LET r == cudaMalloc(device, size * SizeOf(ftype))
    IN  [ok |-> r.err = "cudaSuccess",
         ret |-> [handle |-> r.device, error |-> "none"],
         ops |-> IF memsetTo0
                 THEN <<[call |-> "cudaMemset", ptr |-> r.device]>>
                 ELSE <<>>]

\* copy_host_to_device(host, size)
copy_host_to_device(ftype, size, device) ==
    LET r == cudaMalloc(device, size * SizeOf(ftype))
    IN  [ok |-> r.err = "cudaSuccess",
         ret |-> [handle |-> r.device, error |-> "none"],
         ops |-> <<[call |-> "cudaMemcpy", ptr |-> r.device]>>]

\* ------------------------------------------------------------------ state
VARIABLES
    begin,      \* the device array the calls take as `begin`
    out,        \* a second, disjoint device array of the same capacity
    outLogProb, \* the one-element device buffer of gpu_softmax_at_label
    ret,        \* the value the last call returned
    accesses,   \* element accesses made by gpu_linear in the last call
    last,       \* the last call: operation, arguments, arrays before it
    row, col,   \* the dimensions of the column-major matrix mat
    mat,        \* the device array holding the matrix
    tout,       \* the device array gpu_transpose_float writes
    back,       \* the device array the transpose back writes
    mlast,      \* the last matrix call: operation, arguments, arrays before it
    threads,    \* the thread count given to setKernelDim1D
    gridDim,    \* the caller's dim3 gridDim
    blockDim,   \* the caller's dim3 blockDim
    dimSet,     \* whether setKernelDim1D has been called on them
    allocLast,  \* the last allocation call and whether cudaMalloc succeeded
    allocRet,   \* what that call gave its caller: the handle and the error
    devOps,     \* the cudaMemset / cudaMemcpy calls it issued, in order
    dotOut,     \* the third device array, gpu_dot_mult's `out`
    dotLast,    \* the last gpu_dot_mult call and the arrays before it
    infLast,    \* the last gpu_correct_inf call and the array before it
    rndLast,    \* the last gpu_fill_rand_normal call and how it was run
    kpc,        \* where each thread of the transpose launch is in the kernel
    tile,       \* the shared-memory tile of each block of the launch
    kreads,     \* the global-memory reads the threads made
    kwrites     \* the global-memory writes the threads made

vecVars == <<begin, out, outLogProb, ret, accesses, last>>
matVars == <<row, col, mat, tout, back, mlast>>
dimVars == <<threads, gridDim, blockDim, dimSet>>
allocVars == <<allocLast, allocRet, devOps>>
dotVars == <<dotOut, dotLast>>
infVars == <<infLast>>
rndVars == <<rndLast>>
kernelVars == <<kpc, tile, kreads, kwrites>>
extVars == <<allocVars, dotVars, infVars, rndVars, kernelVars>>
vars == <<vecVars, matVars, dimVars, extVars>>

Vals == {RInt(v) : v \in (-MaxVal)..MaxVal}
Arrays == UNION {[1..n -> Vals] : n \in 0..MaxLen}

\* a freshly allocated output array, filled with a value no input holds
Unwritten == RInt(-99)
FreshOut(n) == [i \in 1..n |-> Unwritten]

AVals == {RInt(1), RInt(2)}
BVals == {RInt(0), RInt(1)}
MVals == {RInt(1), RInt(2)}
Dirs == {-2, -1, 0, 1, 2}
Sizes(arr) == {n \in 0..Len(arr) : n >= Len(arr) - 1}

NoCall == [op |-> "none", name |-> "", a |-> RInt(1), b |-> RInt(0), m |-> RInt(1),
           size |-> 0, inplace |-> FALSE, arg |-> 0, prevOp |-> "none", prevArg |-> 0,
           prevSize |-> 0, preBegin |-> <<>>, preOut |-> <<>>]

\* arg is the call's integer argument: dir of gpu_sort, label of the softmax
\* kernels; prevOp, prevArg and prevSize are those of the call before
Call(op, name, a, b, m, size, inplace, arg) ==
    [op |-> op, name |-> name, a |-> a, b |-> b, m |-> m, size |-> size,
     inplace |-> inplace, arg |-> arg, prevOp |-> last.op, prevArg |-> last.arg,
     prevSize |-> last.size, preBegin |-> begin, preOut |-> out]

Fresh == last.op = "none"

NoMatCall == [op |-> "none", idx |-> 0, val |-> 0, preMat |-> <<>>, preOut |-> <<>>]

MatCall(op, idx, val) ==
    [op |-> op, idx |-> idx, val |-> val, preMat |-> mat, preOut |-> tout]

\* the variables of the parts of the library a specification does not run
VecIdle ==
    /\ begin = <<>>
    /\ out = <<>>
    /\ outLogProb = <<LogTerm(RInt(0), RInt(1))>>
    /\ ret = LogTerm(RInt(0), RInt(1))
    /\ accesses = 0
    /\ last = NoCall

MatIdle ==
    /\ row = 0
    /\ col = 0
    /\ mat = <<>>
    /\ tout = <<>>
    /\ back = <<>>
    /\ mlast = NoMatCall

DimIdle ==
    /\ threads = 0
    /\ gridDim = DefaultDim3
    /\ blockDim = DefaultDim3
    /\ dimSet = FALSE

NoAllocCall == [op |-> "none", ftype |-> "int", size |-> 0, memsetTo0 |-> FALSE,
                allocOk |-> TRUE]
NoAllocRet == [handle |-> "null", error |-> "none"]

AllocIdle ==
    /\ allocLast = NoAllocCall
    /\ allocRet = NoAllocRet
    /\ devOps = <<>>

NoDotCall == [op |-> "none", withOut |-> FALSE, given |-> <<>>, size |-> 0,
              preA |-> <<>>, preB |-> <<>>, preOut |-> <<>>]

DotIdle ==
    /\ dotOut = <<>>
    /\ dotLast = NoDotCall

NoInfCall == [op |-> "none", given |-> <<>>, size |-> 0, pre |-> <<>>]

InfIdle == infLast = NoInfCall

NoRndCall == [op |-> "none", size |-> 0, mean |-> RInt(0), stddev |-> RInt(1),
              owner |-> <<>>]

RndIdle == rndLast = NoRndCall

KernelIdle ==
    /\ kpc = <<>>
    /\ tile = <<>>
    /\ kreads = {}
    /\ kwrites = {}

ExtIdle == AllocIdle /\ DotIdle /\ InfIdle /\ RndIdle /\ KernelIdle

Init ==
    /\ begin \in Arrays
    /\ out = FreshOut(Len(begin))
    /\ outLogProb = <<LogTerm(RInt(0), RInt(1))>>
    /\ ret = LogTerm(RInt(0), RInt(1))
    /\ accesses = 0
    /\ last = NoCall
    /\ MatIdle
    /\ DimIdle
    /\ ExtIdle

\* the array a call writes, and the state after it wrote res there
Target(inplace) == IF inplace THEN begin ELSE out
Store(inplace, res) ==
    IF inplace THEN begin' = res /\ out' = out
    ELSE out' = res /\ begin' = begin

Mem == [begin |-> begin, out |-> out]
Dst(inplace) == IF inplace THEN "begin" ELSE "out"

\* gpu_<name><T>(begin, size, [out,] a, b, m)
Transf ==
    \E name \in FuncNames, a \in AVals, b \in BVals, m \in MVals,
       inplace \in BOOLEAN, size \in Sizes(begin) :
        /\ Fresh
        /\ Store(inplace, gpu_transf(name, begin, size, Target(inplace), a, b, m))
        /\ last' = Call("transf", name, a, b, m, size, inplace, 0)
        /\ UNCHANGED <<outLogProb, ret, accesses, matVars, dimVars, extVars>>

\* gpu_<name>_<Ftype>(begin, size, [out,] a, b)
TransfFtype ==
    \E name \in FuncNames, a \in AVals, b \in BVals,
       inplace \in BOOLEAN, size \in Sizes(begin) :
        /\ Fresh
        /\ Store(inplace, gpu_transf_ftype(name, begin, size, Target(inplace), a, b))
        /\ last' = Call("transf_ftype", name, a, b, RInt(1), size, inplace,
                        ftype_branch(a, b))
        /\ UNCHANGED <<outLogProb, ret, accesses, matVars, dimVars, extVars>>

\* gpu_linear<T>(begin, size, [out,] a, b)
Linear ==
    \E a \in AVals, b \in BVals, inplace \in BOOLEAN, size \in Sizes(begin) :
        /\ Fresh
        /\ LET r == gpu_linear(begin, size, Target(inplace), inplace, a, b)
           IN  /\ Store(inplace, r.arr)
               /\ accesses' = r.cost
        /\ last' = Call("linear", "", a, b, RInt(1), size, inplace, 0)
        /\ UNCHANGED <<outLogProb, ret, matVars, dimVars, extVars>>

\* gpu_sort<T>(begin, size, dir), on the input or after another sort
Sort ==
    \E dir \in Dirs, size \in Sizes(begin) :
        /\ last.op \in {"none", "sort"}
        /\ begin' = gpu_sort(begin, size, dir)
        /\ last' = Call("sort", "", RInt(1), RInt(0), RInt(1), size, TRUE, dir)
        /\ UNCHANGED <<out, outLogProb, ret, accesses, matVars, dimVars, extVars>>

\* gpu_softmax<T>(begin, size [, out]); gpu_max needs size >= 1
Softmax ==
    \E inplace \in BOOLEAN, size \in Sizes(begin) \ {0} :
        /\ Fresh
        /\ LET r == gpu_softmax(Mem, "begin", Dst(inplace), size)
           IN  /\ begin' = r.mem.begin
               /\ out' = r.mem.out
               /\ accesses' = r.cost
        /\ last' = Call("softmax", "", RInt(1), RInt(0), RInt(1), size, inplace, 0)
        /\ UNCHANGED <<outLogProb, ret, matVars, dimVars, extVars>>

\* gpu_softmax_minus_id<T>(begin, size, [out,] label), 0 <= label < size
SoftmaxMinusId ==
    \E inplace \in BOOLEAN, size \in Sizes(begin) \ {0} :
        \E label \in 0..(size - 1) :
            /\ Fresh
            /\ LET r == gpu_softmax_minus_id(Mem, "begin", Dst(inplace), size, label)
               IN  /\ begin' = r.mem.begin
                   /\ out' = r.mem.out
                   /\ accesses' = r.cost
            /\ last' = Call("softmax_minus_id", "", RInt(1), RInt(0), RInt(1), size,
                            inplace, label)
            /\ UNCHANGED <<outLogProb, ret, matVars, dimVars, extVars>>

\* gpu_softmax_at_label<T>(begin, size, label, outLogProb), 0 <= label < size
SoftmaxAtLabel ==
    \E size \in Sizes(begin) \ {0} :
        \E label \in 0..(size - 1) :
            /\ Fresh
            /\ LET r == gpu_softmax_at_label(Mem, "begin", size, label)
               IN  /\ begin' = r.mem.begin
                   /\ out' = r.mem.out
                   /\ outLogProb' = r.outLogProb
                   /\ ret' = r.ret
            /\ last' = Call("softmax_at_label", "", RInt(1), RInt(0), RInt(1), size,
                            FALSE, label)
            /\ UNCHANGED <<accesses, matVars, dimVars, extVars>>

Next ==
    \/ Transf
    \/ TransfFtype
    \/ Linear
    \/ Sort
    \/ Softmax
    \/ SoftmaxMinusId
    \/ SoftmaxAtLabel

Spec == Init /\ [][Next]_vars

\* ------------------------------------------------- functor defaults
PVals == {RInt(2), RInt(3)}

\* the optional arguments (a, b, m) a call may give: none, or a prefix
GivenArgs ==
    {<<>>} \cup {<<a>> : a \in AVals} \cup {<<a, b>> : a \in AVals, b \in BVals}
        \cup {<<a, b, m>> : a \in AVals, b \in BVals, m \in MVals}

\* a call taking a fixed parameter p and optional arguments
Call2(op, name, p, given, size, inplace) ==
    [op |-> op, name |-> name, p |-> p, given |-> given, size |-> size,
     inplace |-> inplace, preBegin |-> begin, preOut |-> out]

\* thrust::transform(begin, begin + size, out, functor_<name><T>()): a unary
\* functor built with no arguments, as gpu_log_sum and gpu_square_sum build it
FunctorDefault ==
    \E name \in FuncNames, inplace \in BOOLEAN, size \in Sizes(begin) :
        /\ Fresh
        /\ Store(inplace, transform(begin, size, Target(inplace),
                                    functor_ctor(name, <<>>)))
        /\ last' = Call2("functor_default", name, RInt(0), <<>>, size, inplace)
        /\ UNCHANGED <<outLogProb, ret, accesses, matVars, dimVars, extVars>>

\* thrust::transform(begin, begin + size, out, functor_<name><T>(p)): a binary
\* functor built with only its fixed parameter p
Functor2Default ==
    \E name \in Func2Names, p \in PVals, inplace \in BOOLEAN,
       size \in Sizes(begin) :
        /\ Fresh
        /\ Store(inplace, transform(begin, size, Target(inplace),
                                    functor2_ctor(name, p, <<>>)))
        /\ last' = Call2("functor2_default", name, p, <<>>, size, inplace)
        /\ UNCHANGED <<outLogProb, ret, accesses, matVars, dimVars, extVars>>

\* gpu_pow<T> / gpu_fmod<T>(begin, size, [out,] p [, a [, b [, m]]])
Transf2 ==
    \E name \in Func2Names, p \in PVals, given \in GivenArgs,
       inplace \in BOOLEAN, size \in Sizes(begin) :
        /\ Fresh
        /\ Store(inplace, gpu_transf_2(name, begin, size, Target(inplace), p, given))
        /\ last' = Call2("transf_2", name, p, given, size, inplace)
        /\ UNCHANGED <<outLogProb, ret, accesses, matVars, dimVars, extVars>>

NextFunctor == FunctorDefault \/ Functor2Default \/ Transf2

SpecFunctor == Init /\ [][NextFunctor]_vars

\* ---------------------------------------------------------- allocation
InitAlloc ==
    /\ ExtIdle
    /\ VecIdle
    /\ MatIdle
    /\ DimIdle

\* malloc_device_<Ftype>(size, memsetTo0)
MallocDevice ==
    \E ftype \in Ftypes, size \in 0..MaxAllocSize, memsetTo0 \in BOOLEAN,
       device \in UninitPtrs :
        /\ allocLast.op = "none"
        /\ LET r == malloc_device(ftype, size, memsetTo0, device)
           IN  /\ allocLast' = [op |-> "malloc_device", ftype |-> ftype, size |-> size,
                                memsetTo0 |-> memsetTo0, allocOk |-> r.ok]
               /\ allocRet' = r.ret
               /\ devOps' = r.ops
        /\ UNCHANGED <<vecVars, matVars, dimVars, dotVars, infVars, rndVars, kernelVars>>

\* copy_host_to_device(host, size)
CopyHostToDevice ==
    \E ftype \in Ftypes, size \in 0..MaxAllocSize, device \in UninitPtrs :
        /\ allocLast.op = "none"
        /\ LET r == copy_host_to_device(ftype, size, device)
           IN  /\ allocLast' = [op |-> "copy_host_to_device", ftype |-> ftype,
                                size |-> size, memsetTo0 |-> FALSE, allocOk |-> r.ok]
               /\ allocRet' = r.ret
               /\ devOps' = r.ops
        /\ UNCHANGED <<vecVars, matVars, dimVars, dotVars, infVars, rndVars, kernelVars>>

NextAlloc == MallocDevice \/ CopyHostToDevice

SpecAlloc == InitAlloc /\ [][NextAlloc]_vars

\* ---------------------------------------------------- elementwise product
DotArrays == UNION {[1..n -> Vals] : n \in 0..MaxDotLen}
ScaleArgs == {<<>>, <<RInt(2)>>, <<RNorm(1, 2)>>}

\* begin is begin1, out is begin2, dotOut the distinct third array
InitDot ==
    /\ begin \in DotArrays
    /\ out \in [1..Len(begin) -> Vals]
    /\ dotOut = FreshOut(Len(begin))
    /\ dotLast = NoDotCall
    /\ outLogProb = <<LogTerm(RInt(0), RInt(1))>>
    /\ ret = LogTerm(RInt(0), RInt(1))
    /\ accesses = 0
    /\ last = NoCall
    /\ AllocIdle
    /\ InfIdle
    /\ RndIdle
    /\ KernelIdle
    /\ MatIdle
    /\ DimIdle

DotMem == [begin1 |-> begin, begin2 |-> out, out |-> dotOut]
DotDst(withOut) == IF withOut THEN "out" ELSE "begin2"
DotCall(op, withOut, given, size) ==
    [op |-> op, withOut |-> withOut, given |-> given, size |-> size,
     preA |-> begin, preB |-> out, preOut |-> dotOut]
DotStore(mem) ==
    /\ begin' = mem.begin1
    /\ out' = mem.begin2
    /\ dotOut' = mem.out

\* gpu_dot_mult<T>(begin1, size, begin2, [out,] [scalor])
DotMult ==
    \E withOut \in BOOLEAN, given \in ScaleArgs, size \in Sizes(begin) :
        /\ dotLast.op = "none"
        /\ DotStore(gpu_dot_mult(DotMem, size, DotDst(withOut), given))
        /\ dotLast' = DotCall("dot_mult", withOut, given, size)
        /\ UNCHANGED <<outLogProb, ret, accesses, last, matVars, dimVars, allocVars, infVars,
                       rndVars, kernelVars>>

\* gpu_dot_mult_<Ftype>(begin1, size, begin2 [, out])
DotMultFtype ==
    \E withOut \in BOOLEAN, size \in Sizes(begin) :
        /\ dotLast.op = "none"
        /\ DotStore(gpu_dot_mult_ftype(DotMem, size, DotDst(withOut)))
        /\ dotLast' = DotCall("dot_mult_ftype", withOut, <<>>, size)
        /\ UNCHANGED <<outLogProb, ret, accesses, last, matVars, dimVars, allocVars, infVars,
                       rndVars, kernelVars>>

NextDot == DotMult \/ DotMultFtype

SpecDot == InitDot /\ [][NextDot]_vars

\* -------------------------------------------------- infinity correction
\* elements on both sides of the threshold and at it, and the special values
InfVals ==
    {RInt(0), RInt(InfThreshold), RInt(-InfThreshold), RInt(InfThreshold + 1),
     RInt(-InfThreshold - 1), PosInf, NegInf, NaN}
InfArrays == UNION {[1..n -> InfVals] : n \in 0..MaxInfLen}
ReplaceArgs == {<<>>, <<RInt(7)>>}

InitInf ==
    /\ begin \in InfArrays
    /\ out = FreshOut(Len(begin))
    /\ outLogProb = <<LogTerm(RInt(0), RInt(1))>>
    /\ ret = LogTerm(RInt(0), RInt(1))
    /\ accesses = 0
    /\ last = NoCall
    /\ MatIdle
    /\ DimIdle
    /\ ExtIdle

\* gpu_correct_inf<T>(begin, size [, replaceVal])
CorrectInf ==
    \E given \in ReplaceArgs, size \in Sizes(begin) :
        /\ infLast.op = "none"
        /\ begin' = gpu_correct_inf(begin, size, given)
        /\ infLast' = [op |-> "correct_inf", given |-> given, size |-> size,
                       pre |-> begin]
        /\ UNCHANGED <<out, outLogProb, ret, accesses, last, matVars, dimVars,
                       allocVars, dotVars, rndVars, kernelVars>>

NextInf == CorrectInf

SpecInf == InitInf /\ [][NextInf]_vars

\* ---------------------------------------------------- random normal fill
Means == {RInt(0), RInt(1)}
Stddevs == {RInt(1), RInt(2)}

InitRand ==
    /\ \E n \in 0..MaxRandLen : begin = FreshOut(n)
    /\ out = <<>>
    /\ outLogProb = <<LogTerm(RInt(0), RInt(1))>>
    /\ ret = LogTerm(RInt(0), RInt(1))
    /\ accesses = 0
    /\ last = NoCall
    /\ MatIdle
    /\ DimIdle
    /\ ExtIdle

\* gpu_fill_rand_normal<T>(begin, size, mean, stddev)
FillRandNormal ==
    \E size \in Sizes(begin), mean \in Means, stddev \in Stddevs :
        \E owner \in Owners(size) :
            /\ rndLast.op = "none"
            /\ begin' = gpu_fill_rand_normal(begin, size, mean, stddev, owner)
            /\ rndLast' = [op |-> "fill_rand_normal", size |-> size, mean |-> mean,
                           stddev |-> stddev, owner |-> owner]
            /\ UNCHANGED <<out, outLogProb, ret, accesses, last, matVars, dimVars,
                           allocVars, dotVars, infVars, kernelVars>>

NextRand == FillRandNormal

SpecRand == InitRand /\ [][NextRand]_vars

\* ------------------------------------------------ fill row / fill column
\* the column counts tried: small ones, those around a warp and those around
\* the thread cap of one block
FillCols == {c \in 1..MaxCol : c <= 3 \/ (31 <= c /\ c <= 33) \/ c >= 1023}

\* the indices tried on a dimension of n: the first and the last element,
\* each counted from the front and from the back
IdxChoices(n) == {-n, -1, 0, n - 1}

FillVals == {7, 8}

InitFill ==
    /\ row \in 1..MaxRow
    /\ col \in FillCols
    /\ mat = [k \in 1..(row * col) |-> -k]
    /\ tout = <<>>
    /\ back = <<>>
    /\ mlast = NoMatCall
    /\ VecIdle
    /\ DimIdle
    /\ ExtIdle

\* gpu_fill_col_float(begin, row, col, colIdx, val)
FillCol ==
    \E colIdx \in IdxChoices(col), val \in FillVals :
        /\ mlast.op = "none"
        /\ mat' = gpu_fill_col_float(mat, row, col, colIdx, val)
        /\ mlast' = MatCall("fill_col", colIdx, val)
        /\ UNCHANGED <<row, col, tout, back, vecVars, dimVars, extVars>>

\* gpu_fill_row_float(begin, row, col, rowIdx, val)
FillRow ==
    \E rowIdx \in IdxChoices(row), val \in FillVals :
        /\ mlast.op = "none"
        /\ mat' = gpu_fill_row_float(mat, row, col, rowIdx, val)
        /\ mlast' = MatCall("fill_row", rowIdx, val)
        /\ UNCHANGED <<row, col, tout, back, vecVars, dimVars, extVars>>

NextFill == FillCol \/ FillRow

SpecFill == InitFill /\ [][NextFill]_vars

\* ---------------------------------------------------------- transpose
InitTranspose ==
    /\ row \in 1..MaxTRow
    /\ col \in 1..MaxTCol
    /\ mat = [k \in 1..(row * col) |-> k]
    /\ tout = [k \in 1..(row * col) |-> Garbage]
    /\ back = [k \in 1..(row * col) |-> Garbage]
    /\ mlast = NoMatCall
    /\ VecIdle
    /\ DimIdle
    /\ ExtIdle

\* gpu_transpose_float(mat, row, col, tout)
Transpose ==
    /\ mlast.op = "none"
    /\ tout' = gpu_transpose_float(mat, row, col, tout)
    /\ mlast' = MatCall("transpose", 0, 0)
    /\ UNCHANGED <<row, col, mat, back, vecVars, dimVars, extVars>>

\* gpu_transpose_float(tout, col, row, back): the transpose of the result,
\* with the dimensions swapped
TransposeBack ==
    /\ mlast.op = "transpose"
    /\ back' = gpu_transpose_float(tout, col, row, back)
    /\ mlast' = MatCall("transpose_back", 0, 0)
    /\ UNCHANGED <<row, col, mat, tout, vecVars, dimVars, extVars>>

NextTranspose == Transpose \/ TransposeBack

SpecTranspose == InitTranspose /\ [][NextTranspose]_vars

\* ------------------------------------------ tiled transpose, by thread
\* the launch of gpu_transpose_float(mat, row, col, tout): every thread is at
\* the start of the kernel, the tiles hold nothing
InitKernel ==
    /\ row \in 1..MaxKRow
    /\ col \in 1..MaxKCol
    /\ mat = [k \in 1..(row * col) |-> k]
    /\ tout = [k \in 1..(row * col) |-> Garbage]
    /\ back = <<>>
    /\ mlast = NoMatCall
    /\ kpc = [i \in 1..NumThreads(LaunchGrid(row, col), LaunchBlock) |-> "load"]
    /\ tile = [c \in 1..NumTileCells(LaunchGrid(row, col)) |-> Unloaded]
    /\ kreads = {}
    /\ kwrites = {}
    /\ VecIdle
    /\ DimIdle
    /\ AllocIdle /\ DotIdle /\ InfIdle /\ RndIdle

KernelFrame == UNCHANGED <<row, col, mat, back, mlast, vecVars, dimVars, allocVars,
                           dotVars, infVars, rndVars>>

\* thread number i of the launch, and the numbers of the threads of a block
Thread(i) == ThreadAt(i, LaunchGrid(row, col), LaunchBlock)
BlockOf(i) == (i - 1) \div (BLOCK_DIM * BLOCK_DIM)
BlockThreads(b) == (b * BLOCK_DIM * BLOCK_DIM + 1)..((b + 1) * BLOCK_DIM * BLOCK_DIM)
KernelBlocks == 0..(LaunchGrid(row, col).x * LaunchGrid(row, col).y - 1)
Tile(bx, by, y, x) == TileIndex(LaunchGrid(row, col), bx, by, y, x)

\* every thread of block b has arrived at __syncthreads()
Arrived(b) == \A u \in BlockThreads(b) : kpc[u] # "load"

\* thread i runs from the start of the kernel to __syncthreads(): it reads
\* in[index_in] into block[threadIdx.y][threadIdx.x] when its guard holds
KernelLoad(i) ==
    LET t == Thread(i)
        idx == index_in(t, row, col)
    IN  /\ kpc[i] = "load"
        /\ ~Bystander(t, row, col)
        /\ IF idx # NoAccess
           THEN /\ tile' = [tile EXCEPT ![Tile(t.bx, t.by, t.ty, t.tx)] = mat[idx + 1]]
                /\ kreads' = kreads \cup {[t |-> t, idx |-> idx]}
           ELSE UNCHANGED <<tile, kreads>>
        /\ kpc' = [kpc EXCEPT ![i] = "sync"]
        /\ UNCHANGED <<tout, kwrites>>
        /\ KernelFrame

\* thread i is released from __syncthreads() and runs to the end of the
\* kernel: it writes block[threadIdx.x][threadIdx.y] to out[index_out] when
\* its guard holds; a cell nobody stored into reads as any value
KernelStore(i) ==
    LET t == Thread(i)
        idx == index_out(t, row, col)
        cell == tile[Tile(t.bx, t.by, t.tx, t.ty)]
    IN  /\ syncthreads(kpc[i], Arrived(BlockOf(i)))
        /\ ~Bystander(t, row, col)
        /\ IF idx # NoAccess
           THEN \E v \in (IF cell = Unloaded THEN UninitFloats ELSE {cell}) :
                    /\ tout' = [tout EXCEPT ![idx + 1] = v]
                    /\ kwrites' = kwrites \cup
                           {[t |-> t, idx |-> idx, val |-> v,
                             loaded |-> cell # Unloaded]}
           ELSE UNCHANGED <<tout, kwrites>>
        /\ kpc' = [kpc EXCEPT ![i] = "done"]
        /\ UNCHANGED <<tile, kreads>>
        /\ KernelFrame

\* the threads of block b that fail both guards run to __syncthreads(); they
\* access no memory, so their steps are taken together
BystandersArrive(b) ==
    /\ {i \in BlockThreads(b) : kpc[i] = "load" /\ Bystander(Thread(i), row, col)} # {}
    /\ kpc' = [i \in DOMAIN kpc |->
                  IF BlockOf(i) = b /\ kpc[i] = "load" /\ Bystander(Thread(i), row, col)
                  THEN "sync" ELSE kpc[i]]
    /\ UNCHANGED <<tout, tile, kreads, kwrites>>
    /\ KernelFrame

\* those threads are released from __syncthreads() and return
BystandersReturn(b) ==
    /\ {i \in BlockThreads(b) : /\ Bystander(Thread(i), row, col)
                                /\ syncthreads(kpc[i], Arrived(b))} # {}
    /\ kpc' = [i \in DOMAIN kpc |->
                  IF BlockOf(i) = b /\ kpc[i] = "sync" /\ Bystander(Thread(i), row, col)
                  THEN "done" ELSE kpc[i]]
    /\ UNCHANGED <<tout, tile, kreads, kwrites>>
    /\ KernelFrame

KernelLoads == \E i \in DOMAIN kpc : KernelLoad(i)
KernelStores == \E i \in DOMAIN kpc : KernelStore(i)
BystanderSteps == \E b \in KernelBlocks : BystandersArrive(b) \/ BystandersReturn(b)

NextKernel == KernelLoads \/ KernelStores \/ BystanderSteps

\* the device runs every thread of a launched block until it returns
SpecKernel == InitKernel /\ [][NextKernel]_vars /\ WF_vars(NextKernel)

\* ------------------------------------------------------ launch shape
InitDim ==
    /\ threads \in 1..MaxThreads
    /\ gridDim = DefaultDim3
    /\ blockDim = DefaultDim3
    /\ dimSet = FALSE
    /\ VecIdle
    /\ MatIdle
    /\ ExtIdle

\* dim3 gridDim, blockDim; setKernelDim1D(threads, gridDim, blockDim)
SetKernelDim1D ==
    /\ ~dimSet
    /\ LET d == setKernelDim1D(threads, gridDim, blockDim)
       IN  /\ gridDim' = d.gridDim
           /\ blockDim' = d.blockDim
    /\ dimSet' = TRUE
    /\ UNCHANGED <<threads, vecVars, matVars, extVars>>

NextDim == SetKernelDim1D

SpecDim == InitDim /\ [][NextDim]_vars

\* the array the last call wrote
Written == IF last.inplace THEN begin ELSE out

\* C1: after gpu_<f>(begin, n, out, a, b, m) every element i < n of the
\* written array is m * f(a * in[i] + b) of the value in[i] before the call,
\* out of place and in place; after the type-specialised gpu_<f>_<Ftype>,
\* whichever of the four (a, b) branches ran, it is f(a * in[i] + b).
C1_Transform ==
    /\ last.op = "transf" =>
          \A i \in 1..last.size :
              Written[i] = RMul(last.m, ApplyF(last.name,
                                 RAdd(RMul(last.a, last.preBegin[i]), last.b)))
    /\ last.op = "transf_ftype" =>
          \A i \in 1..last.size :
              Written[i] = ApplyF(last.name,
                                  RAdd(RMul(last.a, last.preBegin[i]), last.b))

C1_Witness ==
    /\ last.op = "transf"
    /\ last.inplace
    /\ last.size = MaxLen
    /\ last.name = "cube"
    /\ last.a = RInt(2) /\ last.b = RInt(1) /\ last.m = RInt(2)
    /\ begin # last.preBegin

\* C2: gpu_linear with a = 1 and b = 0 makes no element access and changes
\* no element when out is the array begin; when out is another array it makes
\* out[i] = in[i] for every i < size and leaves the input unchanged.
C2_LinearIdentity ==
    (last.op = "linear" /\ last.a = RInt(1) /\ last.b = RInt(0)) =>
        IF last.inplace
        THEN accesses = 0 /\ begin = last.preBegin /\ out = last.preOut
        ELSE /\ \A i \in 1..last.size : out[i] = last.preBegin[i]
             /\ begin = last.preBegin

C2_Witness ==
    /\ last.op = "linear" /\ last.a = RInt(1) /\ last.b = RInt(0)
    /\ ~last.inplace
    /\ last.size = MaxLen
    /\ out # last.preOut

\* ------------------------------------------- reference definitions
\* the greatest of the first n elements of arr
MaxOf(arr, n) ==
    CHOOSE v \in {arr[i] : i \in 1..n} : \A j \in 1..n : ~RLess(v, arr[j])

\* the sum of f[i] over the indices in S
RECURSIVE Sigma(_, _)
Sigma(f, S) ==
    IF S = {} THEN RInt(0)
    ELSE LET i == CHOOSE k \in S : TRUE
         IN  RAdd(f[i], Sigma(f, S \ {i}))

\* exp(arr[i] - max) for i <= n, and softmax of the first n elements
ExpShifted(arr, n) == [i \in 1..n |-> exp(RSub(arr[i], MaxOf(arr, n)))]
SoftmaxOf(arr, n) ==
    LET e == ExpShifted(arr, n)
        tot == Sigma(e, 1..n)
    IN  [i \in 1..n |-> RNorm(e[i][1] * tot[2], e[i][2] * tot[1])]

\* how many of the first n elements of arr are v
Count(arr, n, v) == Cardinality({i \in 1..n : arr[i] = v})

\* C3: gpu_softmax_at_label with 0 <= label < size leaves every element of
\* the input unchanged, writes (begin[label] - max) - log(sum_i exp(begin[i] -
\* max)) into outLogProb[0] and returns the value it wrote there.
C3_AtLabel ==
    last.op = "softmax_at_label" =>
        /\ begin = last.preBegin
        /\ outLogProb[1] =
              [lin |-> RSub(last.preBegin[last.arg + 1], MaxOf(last.preBegin, last.size)),
               logarg |-> Sigma(ExpShifted(last.preBegin, last.size), 1..last.size)]
        /\ ret = outLogProb[1]

C3_Witness ==
    /\ last.op = "softmax_at_label"
    /\ last.size = MaxLen
    /\ last.arg = 1
    /\ outLogProb[1].lin = RInt(-2)
    /\ outLogProb[1].logarg # RInt(1)

\* C4: gpu_softmax_minus_id with 0 <= label < size leaves out[i] =
\* softmax(input)[i] for every i # label and out[label] = softmax(input)[label]
\* - 1, out of place and in place.
C4_MinusId ==
    last.op = "softmax_minus_id" =>
        LET sm == SoftmaxOf(last.preBegin, last.size)
        IN  \A i \in 1..last.size :
                Written[i] = IF i = last.arg + 1 THEN RSub(sm[i], RInt(1)) ELSE sm[i]

C4_Witness ==
    /\ last.op = "softmax_minus_id"
    /\ last.inplace
    /\ last.size = MaxLen
    /\ last.arg = 1
    /\ last.preBegin = <<RInt(0), RInt(1), RInt(-1)>>
    /\ RLess(begin[2], RInt(0))

\* C5: gpu_softmax on size >= 1 elements leaves out[i] = exp(in[i] - max) /
\* sum_j exp(in[j] - max), in and max being the values before the call, also
\* in place; the elements of out sum to 1.
C5_Softmax ==
    last.op = "softmax" =>
        LET e == ExpShifted(last.preBegin, last.size)
            tot == Sigma(e, 1..last.size)
        IN  /\ \A i \in 1..last.size : RMul(Written[i], tot) = e[i]
            /\ Sigma(Written, 1..last.size) = RInt(1)

C5_Witness ==
    /\ last.op = "softmax"
    /\ last.inplace
    /\ last.preBegin = <<RInt(0), RInt(0), RInt(0)>>
    /\ begin = <<RNorm(1, 3), RNorm(1, 3), RNorm(1, 3)>>

\* C6: gpu_sort(begin, size, dir) leaves the first size elements a permutation
\* of what they were, non-decreasing when dir > 0 and non-increasing for every
\* other dir (0 and every negative dir).
C6_Sort ==
    last.op = "sort" =>
        /\ Len(begin) = Len(last.preBegin)
        /\ \A i \in 1..Len(begin) :
              Count(begin, last.size, begin[i]) =
                  Count(last.preBegin, last.size, begin[i])
        /\ \A i \in 1..Len(begin) : i > last.size => begin[i] = last.preBegin[i]
        /\ \A i \in 1..(last.size - 1) :
              IF last.arg > 0 THEN ~RLess(begin[i + 1], begin[i])
              ELSE ~RLess(begin[i], begin[i + 1])

C6_Witness ==
    /\ last.op = "sort"
    /\ last.arg = 0
    /\ last.prevOp = "none"
    /\ last.size = MaxLen
    /\ last.preBegin = <<RInt(0), RInt(1), RInt(-1)>>
    /\ begin = <<RInt(1), RInt(0), RInt(-1)>>

\* C7: sorting ascending and then sorting the result descending yields the
\* ascending result in reversed order, and sorting a sorted array again in the
\* same direction leaves it unchanged.
C7_SortTwice ==
    (last.op = "sort" /\ last.prevOp = "sort" /\ last.prevSize = last.size) =>
        /\ (last.prevArg > 0 /\ ~(last.arg > 0)) =>
              \A i \in 1..last.size : begin[i] = last.preBegin[last.size + 1 - i]
        /\ ((last.prevArg > 0) = (last.arg > 0)) => begin = last.preBegin

C7_Witness ==
    /\ last.op = "sort" /\ last.prevOp = "sort"
    /\ last.prevArg > 0 /\ last.arg < 0
    /\ last.size = MaxLen /\ last.prevSize = MaxLen
    /\ last.preBegin = <<RInt(-1), RInt(0), RInt(1)>>
    /\ begin = <<RInt(1), RInt(0), RInt(-1)>>

\* the element at row r, column c (from 0) of a column-major matrix with
\* rows rows
At(arr, rows, r, c) == arr[c * rows + r + 1]

\* C8: gpu_transpose_float writes every one of the row * col elements of out
\* with the transpose of the matrix, for every row >= 1 and col >= 1, so that
\* transposing the result back gives the matrix again.
C8_TransposeAll ==
    /\ mlast.op \in {"transpose", "transpose_back"} =>
          \A r \in 0..(row - 1), c \in 0..(col - 1) :
              At(tout, col, c, r) = At(mat, row, r, c)
    /\ mlast.op = "transpose_back" => back = mat

\* C9: gpu_fill_col_float and gpu_fill_row_float, a negative index i being
\* resolved to i + dimension, set every element of the resolved column
\* (row) to the value and leave every other element unchanged, for every
\* col >= 1 including col > 1024.
C9_Fill ==
    LET i == IF mlast.idx < 0
             THEN mlast.idx + (IF mlast.op = "fill_col" THEN col ELSE row)
             ELSE mlast.idx
    IN  /\ mlast.op = "fill_col" =>
              \A r \in 0..(row - 1), c \in 0..(col - 1) :
                  At(mat, row, r, c) =
                      IF c = i THEN mlast.val ELSE At(mlast.preMat, row, r, c)
        /\ mlast.op = "fill_row" =>
              \A r \in 0..(row - 1), c \in 0..(col - 1) :
                  At(mat, row, r, c) =
                      IF r = i THEN mlast.val ELSE At(mlast.preMat, row, r, c)
        /\ mlast.op # "none" => Len(mat) = row * col

C9_Witness ==
    /\ mlast.op = "fill_row"
    /\ mlast.idx = -1
    /\ row = 2
    /\ col > MaxBlockThreads
    /\ At(mat, row, 1, col - 1) = mlast.val
    /\ At(mat, row, 0, col - 1) = At(mlast.preMat, row, 0, col - 1)
    /\ At(mat, row, 0, col - 1) < 0

\* the least multiple of 32 that is at least n
RoundUpToWarp(n) ==
    CHOOSE k \in n..(n + WarpSize - 1) : k % WarpSize = 0

\* C10 as stated: setKernelDim1D gives blockDim.x <= 1024 and gridDim.x *
\* blockDim.x >= threads, with, when threads > 1024, blocks of exactly 1024
\* threads in as many blocks as needed to cover threads (no block more), and
\* otherwise one block of threads rounded up to a multiple of 32.
C10_AsManyAsNeeded ==
    dimSet =>
        /\ blockDim.x <= MaxBlockThreads
        /\ gridDim.x * blockDim.x >= threads
        /\ threads > MaxBlockThreads =>
              /\ blockDim.x = MaxBlockThreads
              /\ (gridDim.x - 1) * blockDim.x < threads
        /\ threads <= MaxBlockThreads =>
              /\ gridDim.x = 1
              /\ blockDim.x = RoundUpToWarp(threads)

\* C10 amended: as C10, but when threads > 1024 the number of blocks is
\* threads / 1024 + 1 (integer division): enough to cover threads, and one
\* block more than needed when threads is a multiple of 1024.
C10_LaunchShape ==
    dimSet =>
        /\ blockDim.x <= MaxBlockThreads
        /\ gridDim.x * blockDim.x >= threads
        /\ threads > MaxBlockThreads =>
              /\ blockDim.x = MaxBlockThreads
              /\ gridDim.x = threads \div MaxBlockThreads + 1
              /\ (gridDim.x - 1) * blockDim.x < threads
                    \/ threads % MaxBlockThreads = 0
        /\ threads <= MaxBlockThreads =>
              /\ gridDim.x = 1
              /\ blockDim.x = RoundUpToWarp(threads)
        /\ gridDim.y = 1 /\ gridDim.z = 1 /\ blockDim.y = 1 /\ blockDim.z = 1

C10_Witness ==
    /\ dimSet
    /\ threads = 2 * MaxBlockThreads
    /\ gridDim.x = 3
    /\ blockDim.x = MaxBlockThreads

\* C11: every functor's affine parameters default to a = 1, b = 0, m = 1: a
\* unary functor built with no arguments computes f(x), and a two-argument
\* functor built with only its parameter p computes f(x, p), which is what
\* the dispatcher gpu_pow / gpu_fmod called with only p writes.
C11_Defaults ==
    /\ last.op = "functor_default" =>
          \A i \in 1..last.size : Written[i] = ApplyF(last.name, last.preBegin[i])
    /\ last.op = "functor2_default" =>
          /\ \A i \in 1..last.size :
                Written[i] = ApplyF2(last.name, last.preBegin[i], last.p)
          /\ Written = gpu_transf_2(last.name, last.preBegin, last.size,
                                    IF last.inplace THEN last.preBegin
                                    ELSE last.preOut, last.p, <<>>)

\* C12: when the device allocation fails, malloc_device_<type> and
\* copy_host_to_device give the caller a distinct out-of-device-memory
\* outcome, never an uninitialised or null handle as if the allocation had
\* succeeded, and issue no memset or copy through the failed handle.
C12_AllocFailure ==
    (allocLast.op # "none" /\ ~allocLast.allocOk) =>
        /\ allocRet.error = "out_of_device_memory"
        /\ allocRet.handle \notin UninitPtrs
        /\ devOps = <<>>

\* C13: gpu_dot_mult makes the written array hold scale * a[i] * b[i] for
\* every i below size, scale being 1 when the call gives none; the written
\* array is out when the call gives one, and then a and b are left as they
\* were, and is b otherwise, and then a is left as it was.
C13_DotMult ==
    dotLast.op # "none" =>
        LET scale == IF dotLast.given = <<>> THEN RInt(1) ELSE dotLast.given[1]
            written == IF dotLast.withOut THEN dotOut ELSE out
        IN  /\ \A i \in 1..dotLast.size :
                   written[i] = RMul(scale, RMul(dotLast.preA[i], dotLast.preB[i]))
            /\ begin = dotLast.preA
            /\ dotLast.withOut => out = dotLast.preB
            /\ ~dotLast.withOut => dotOut = dotLast.preOut

\* a scaled product of two non-zero elements was written to a distinct out
C13_Witness ==
    /\ dotLast.op = "dot_mult"
    /\ dotLast.withOut
    /\ dotLast.given = <<RInt(2)>>
    /\ dotLast.size = 2
    /\ dotOut = <<RInt(2), RInt(-2)>>

\* the replacement of the last gpu_correct_inf call: 0 when it gave none
Replacement == IF infLast.given = <<>> THEN RInt(0) ELSE infLast.given[1]
\* x is a number of magnitude at most 1e5
WithinThreshold(x) == ~IsNaN(x) /\ ~fgreater(fabs(x), RInt(InfThreshold))
ExceedsThreshold(x) == fgreater(fabs(x), RInt(InfThreshold))

\* C14 as stated: gpu_correct_inf replaces every element of magnitude above
\* 1e5 by the replacement and leaves those of magnitude at most 1e5 as they
\* were, so that afterwards every element is the replacement or has magnitude
\* at most 1e5.
C14_AllBounded ==
    infLast.op # "none" =>
        \A i \in 1..infLast.size :
            /\ ExceedsThreshold(infLast.pre[i]) => begin[i] = Replacement
            /\ WithinThreshold(infLast.pre[i]) => begin[i] = infLast.pre[i]
            /\ begin[i] = Replacement \/ WithinThreshold(begin[i])

\* C14: gpu_correct_inf replaces in place every element of magnitude strictly
\* above 1e5 (the infinities included) by the replacement, 0 when omitted, and
\* leaves every other element as it was, a NaN included; afterwards every
\* element is the replacement, a NaN, or of magnitude at most 1e5.
C14_CorrectInf ==
    infLast.op # "none" =>
        /\ Len(begin) = Len(infLast.pre)
        /\ \A i \in 1..infLast.size :
            /\ ExceedsThreshold(infLast.pre[i]) => begin[i] = Replacement
            /\ ~ExceedsThreshold(infLast.pre[i]) => begin[i] = infLast.pre[i]
            /\ begin[i] = Replacement \/ IsNaN(begin[i]) \/ WithinThreshold(begin[i])
        /\ \A i \in (infLast.size + 1)..Len(begin) : begin[i] = infLast.pre[i]

\* an element just above the threshold was replaced by the default, next to
\* one at the threshold that was kept
C14_Witness ==
    /\ infLast.op = "correct_inf"
    /\ infLast.given = <<>>
    /\ infLast.size = 2
    /\ infLast.pre = <<RInt(InfThreshold + 1), RInt(-InfThreshold)>>
    /\ begin = <<RInt(0), RInt(-InfThreshold)>>

\* C15: gpu_fill_rand_normal gives element i the sample a fresh copy of the
\* fixed-seed stream makes after discarding exactly i draws, so the element
\* depends only on (i, mean, stddev), and no two indices draw at the same
\* position of the stream.
C15_FreshStream ==
    rndLast.op # "none" =>
        /\ \A i \in 1..rndLast.size :
               begin[i] = Sample(discard(minstd_rand, i - 1), rndLast.mean,
                                 rndLast.stddev)
        /\ \A i, j \in 1..rndLast.size : i # j => begin[i].pos # begin[j].pos

\* the read (write) index of thread t is inside the row x col matrix
ReadInside(t) == t.bx * BLOCK_DIM + t.tx < row /\ t.by * BLOCK_DIM + t.ty < col
WriteInside(t) == t.by * BLOCK_DIM + t.tx < col /\ t.bx * BLOCK_DIM + t.ty < row

\* what holds of the accesses made so far, whatever the interleaving
KernelSafe ==
    /\ \A r \in kreads : ReadInside(r.t) /\ r.idx \in 0..(row * col - 1)
    /\ \A w \in kwrites : WriteInside(w.t) /\ w.idx \in 0..(row * col - 1)
    /\ \A w \in kwrites :
           /\ w.loaded
           /\ \E r \in kreads :
                  /\ SameBlock(r.t, w.t)
                  /\ r.t.tx = w.t.ty /\ r.t.ty = w.t.tx
                  /\ w.val = mat[r.idx + 1]
    /\ \A i \in DOMAIN kpc : kpc[i] = "done" => Arrived(BlockOf(i))

KernelDone == kpc # <<>> /\ \A i \in DOMAIN kpc : kpc[i] = "done"

\* C16: under every interleaving of the threads of a block of the transpose
\* kernel, a thread whose read (write) index is outside the matrix makes no
\* global read (write), every global access is at an index in [0, row * col),
\* every value written to out was stored into the tile by a thread of the
\* same block before the barrier, no thread passes the barrier before all
\* threads of its block reached it, and every thread reaches it and returns.
C16_Kernel == []KernelSafe /\ <>KernelDone

\* a 2 x 1 matrix went through the kernel: two reads, two writes, a thread
\* that read without writing, and the bystanders returned
C16_Witness ==
    /\ KernelDone
    /\ row = 2 /\ col = 1
    /\ Cardinality(kreads) = 2 /\ Cardinality(kwrites) = 2
    /\ tout = <<1, 2>>
    /\ \E r \in kreads : ~WriteInside(r.t)
    /\ \E i \in DOMAIN kpc : ~ReadInside(Thread(i)) /\ ~WriteInside(Thread(i))

====
